---- MODULE Spec2Model ----
(***************************************************************************)
(* A model of io_scene_psk_psa/psa/importer.py: import_psa, the bone       *)
(* mapping, the world-space to local-space conversion, the keyframe        *)
(* reducer and the keyframe writer.                                        *)
(*                                                                         *)
(* Numbers.  Every channel value (a cell of the sequence data matrix, a    *)
(* keyframe value, a translation component) is an integer count of         *)
(* 0.0005, so the reducer's threshold 0.001 is 2.  Rotations are the unit  *)
(* quaternions whose components are multiples of 1/2 (the 24 Hurwitz       *)
(* units: the identity, the half turns about the axes and the third turns  *)
(* about the diagonals), on which mathutils' arithmetic is exact; inside   *)
(* the quaternion operators a quaternion is the 4-tuple of its components  *)
(* doubled.                                                                *)
(***************************************************************************)
EXTENDS Integers, Sequences, FiniteSets, TLC

\* ------------------------------------------------------------- bounds
MaxLen == 4            \* frames of a channel handed to the reducer alone
MaxVal == 5            \* channel values 0..MaxVal handed to the reducer alone
MaxThreshold == 4      \* thresholds 0..MaxThreshold handed to the reducer alone

\* ---------------------------------------------------- program constants
Threshold == 2         \* importer.py:170, threshold = 0.001, in units of 0.0005
NumChannels == 7       \* importer.py:143-151, Qw Qx Qy Qz Lx Ly Lz

Channels == 1..NumChannels
RotationChannels == 1..4
LocationChannels == 5..7

Abs(x) == IF x < 0 THEN -x ELSE x

\* A function on 1..n as the tuple of its values.
Tuple(f) == f \o <<>>

\* ---------------------------------------------------------- mathutils
\* Quaternion components doubled: the identity is <<2, 0, 0, 0>>.
QIdentity == <<2, 0, 0, 0>>

QConj(q) == <<q[1], -q[2], -q[3], -q[4]>>

QNeg(q) == <<-q[1], -q[2], -q[3], -q[4]>>

\* The Hamilton product of two 4-tuples, not rescaled.
HamiltonRaw(a, b) ==
    << a[1]*b[1] - a[2]*b[2] - a[3]*b[3] - a[4]*b[4],
       a[1]*b[2] + a[2]*b[1] + a[3]*b[4] - a[4]*b[3],
       a[1]*b[3] - a[2]*b[4] + a[3]*b[1] + a[4]*b[2],
       a[1]*b[4] + a[2]*b[3] - a[3]*b[2] + a[4]*b[1] >>

QMul(a, b) ==
    LET p == HamiltonRaw(a, b)
    IN  <<p[1] \div 2, p[2] \div 2, p[3] \div 2, p[4] \div 2>>

\* A rotation matrix turned back into a quaternion: of q and -q, the one
\* with w > 0, or for a half turn (w = 0) the one whose first non-zero
\* component is positive.
QCanonical(q) ==
    IF q[1] # 0 THEN (IF q[1] < 0 THEN QNeg(q) ELSE q)
    ELSE IF q[2] # 0 THEN (IF q[2] < 0 THEN QNeg(q) ELSE q)
    ELSE IF q[3] # 0 THEN (IF q[3] < 0 THEN QNeg(q) ELSE q)
    ELSE (IF q[4] < 0 THEN QNeg(q) ELSE q)

\* Quaternion.rotate(other): both become rotation matrices, the product
\* other * self is turned back into a quaternion.
QRotate(self, other) == QCanonical(QMul(other, self))

\* Vector.rotate(other): the vector multiplied by other's rotation matrix.
VRotate(v, q) ==
    LET p == HamiltonRaw(HamiltonRaw(q, <<0, v[1], v[2], v[3]>>), QConj(q))
    IN  <<p[2] \div 4, p[3] \div 4, p[4] \div 4>>

VSub(a, b) == <<a[1] - b[1], a[2] - b[2], a[3] - b[3]>>

\* Quaternion(key_data[0:4]): channel values (units of 0.0005) to doubled
\* components, and back.
QFromChannels(k) == <<k[1] \div 1000, k[2] \div 1000, k[3] \div 1000, k[4] \div 1000>>

QToChannels(q) == <<q[1] * 1000, q[2] * 1000, q[3] * 1000, q[4] * 1000>>

\* ------------------------------------------------------ keyframe reducer
\* The forward pass of importer.py:177-183 over one f-curve's frame data:
\* after the frames 1..n of data, `zeroed` tells of each frame whether its
\* entry of the write matrix was set to 0, and `last` is last_written_datum.
RECURSIVE CleanPass(_, _, _)
CleanPassPrevFrame(data, n, threshold) ==
    IF n = 0 THEN [zeroed |-> <<>>, last |-> 0]
    ELSE LET prev == CleanPass(data, n - 1, threshold)
             datum == data[n]
         IN  IF n - 1 > 0 /\ Abs(datum - data[n - 1]) < threshold
             THEN [zeroed |-> Append(prev.zeroed, TRUE), last |-> datum]
             ELSE [zeroed |-> Append(prev.zeroed, FALSE), last |-> datum]

CleanPassInverted(data, n, threshold) ==
    IF n = 0 THEN [zeroed |-> <<>>, last |-> 0]
    ELSE LET prev == CleanPass(data, n - 1, threshold)
             datum == data[n]
         IN  IF n - 1 > 0 /\ Abs(datum - prev.last) > threshold
             THEN [zeroed |-> Append(prev.zeroed, TRUE), last |-> prev.last]
             ELSE [zeroed |-> Append(prev.zeroed, FALSE), last |-> datum]

CleanPass(data, n, threshold) ==
    IF n = 0 THEN [zeroed |-> <<>>, last |-> 0]
    ELSE LET prev == CleanPass(data, n - 1, threshold)
             datum == data[n]
         IN  IF n - 1 > 0 /\ Abs(datum - prev.last) < threshold
             THEN [zeroed |-> Append(prev.zeroed, TRUE), last |-> prev.last]
             ELSE [zeroed |-> Append(prev.zeroed, FALSE), last |-> datum]

\* The frames of one f-curve's data whose entry the pass sets to 0.
Zeroed(data, threshold) == CleanPass(data, Len(data), threshold).zeroed

\* The entries of one f-curve in the write matrix after the pass: the ones
\* of np.ones, but for the entries set to 0.
CleanMarks(data, threshold) ==
    LET zeroed == Zeroed(data, threshold)
    IN  Tuple([f \in DOMAIN data |-> IF zeroed[f] THEN 0 ELSE 1])

RECURSIVE SumSeq(_)
SumSeq(s) == IF s = <<>> THEN 0 ELSE Head(s) + SumSeq(Tail(s))

\* --------------------------------------------------------- more bounds
MaxFrames == 3         \* frame_count of the longest sequence of the PSA file
MaxBatch == 2          \* longest options.sequence_names
MaxImports == 2        \* calls of import_psa, one after another
MaxNameLen == 1        \* bytes of a name handed to the decoder alone

\* ------------------------------------------- bytes.decode('windows-1252')
Bytes == 0..255

\* What the codec has for a byte its table leaves undefined.
Undefined == -1

\* The code points of the bytes 0x80..0x9F in Python's cp1252 codec; the
\* table has no character for 0x81, 0x8D, 0x8F, 0x90 and 0x9D.
Cp1252High ==
    << 8364, Undefined, 8218, 402, 8222, 8230, 8224, 8225,
       710, 8240, 352, 8249, 338, Undefined, 381, Undefined,
       Undefined, 8216, 8217, 8220, 8221, 8226, 8211, 8212,
       732, 8482, 353, 8250, 339, Undefined, 382, 376 >>

\* The code point of one byte: itself below 0x80 and from 0xA0 on.
DecodeByte(b) == IF b < 128 \/ b >= 160 THEN b ELSE Cp1252High[b - 127]

\* name.decode('windows-1252') raises UnicodeDecodeError at the first byte
\* without a character; otherwise it gives the string of the code points.
Decodable(name) == \A i \in DOMAIN name : DecodeByte(name[i]) # Undefined

Decode(name) == [i \in DOMAIN name |-> DecodeByte(name[i])]

\* ------------------------------------------------------- the PSA file
\* psa_reader.bones, in file order (the names after .decode).
PsaBoneNames == <<"pelvis", "spine">>

\* psa_reader.sequences: the index, sequence name -> frame_count and fps.
SequenceIndex ==
    [Walk |-> [frame_count |-> MaxFrames, fps |-> 30],
     Run  |-> [frame_count |-> 1, fps |-> 24]]

IndexedNames == DOMAIN SequenceIndex

\* The names a caller may request: those of the index and one that is not.
RequestableNames == IndexedNames \cup {"Bogus"}

\* The raw key (Qw Qx Qy Qz Lx Ly Lz) the file holds for a sequence, a frame
\* (from 0) and a PSA bone index (from 1).  Walk: the pelvis keeps its
\* rotation, rests for frame 1 and then moves on all three axes; the spine
\* turns once at frame 1 and drifts along x by 0.0005 a frame.
FileKey(name, frame, bone) ==
    IF name = "Walk"
    THEN IF bone = 1
         THEN IF frame < 2
              THEN <<1000, 1000, 1000, 1000, 0, 0, 2000>>
              ELSE <<1000, 1000, 1000, 1000,
                     10 * (frame - 1), 20 * (frame - 1), 2000 + 30 * (frame - 1)>>
         ELSE IF frame = 0
              THEN <<2000, 0, 0, 0, 0, 400, 3000>>
              ELSE <<1000, -1000, 1000, -1000, frame, 400, 3000>>
    ELSE IF bone = 1
         THEN <<0, 2000, 0, 0, 6, 8, 1990>>
         ELSE <<1000, 1000, -1000, -1000, 2, 390, 3004>>

\* psa_reader.read_sequence_data_matrix(name): frame (from 1) x bone x channel.
ReadSequenceDataMatrix(name) ==
    [f \in 1..SequenceIndex[name].frame_count |->
        [b \in DOMAIN PsaBoneNames |-> FileKey(name, f - 1, b)]]

\* ------------------------------------------------- the target armature
NoName == ""

\* The rest pose of a bone of the target armature: matrix_local's
\* translation and to_quaternion().
RestTranslation(name) ==
    CASE name = "root"   -> <<0, 0, 0>>
      [] name = "pelvis" -> <<0, 0, 2000>>
      [] OTHER           -> <<0, 400, 3000>>

RestRotation(name) ==
    CASE name = "root"   -> <<0, 0, 2, 0>>
      [] name = "pelvis" -> <<1, 1, 1, 1>>
      [] OTHER           -> <<1, -1, 1, 1>>

\* The bone's parent in the hierarchy root > pelvis > spine, among the bones
\* the armature has.
ParentAmong(name, names) ==
    CASE name = "spine"  -> IF "pelvis" \in names THEN "pelvis"
                            ELSE IF "root" \in names THEN "root" ELSE NoName
      [] name = "pelvis" -> IF "root" \in names THEN "root" ELSE NoName
      [] OTHER           -> NoName

Range(s) == {s[i] : i \in DOMAIN s}

\* armature_data.bones for a bone order; has_aux: the pelvis carries the
\* custom properties orig_quat, orig_loc and post_quat.
MakeArmature(order, has_aux) ==
    [i \in DOMAIN order |->
        [name        |-> order[i],
         parent      |-> ParentAmong(order[i], Range(order)),
         translation |-> RestTranslation(order[i]),
         rotation    |-> RestRotation(order[i]),
         has_aux     |-> has_aux /\ order[i] = "pelvis",
         aux_orig_quat |-> <<1, -1, -1, -1>>,
         aux_orig_loc  |-> <<0, 40, 0>>,
         aux_post_quat |-> <<0, 0, 0, 2>>]]

BoneOrders ==
    { <<"pelvis", "spine">>, <<"spine", "pelvis">>, <<"pelvis">>,
      <<"spine", "root">>, <<"spine", "root", "pelvis">> }

Armatures ==
    {MakeArmature(o, FALSE) : o \in BoneOrders}
        \cup {MakeArmature(<<"pelvis", "spine">>, TRUE)}

\* ------------------------------------------------------------- options
\* PsaImportOptions, with sequence_names a list of distinct names (the
\* selected items of the sequence list).
Batches ==
    UNION { {b \in [1..n -> RequestableNames] :
                \A i, j \in 1..n : i # j => b[i] # b[j]} : n \in 1..MaxBatch }

Prefixes == {"", "A_"}

Options ==
    [should_clean_keys      : BOOLEAN,
     should_use_fake_user   : BOOLEAN,
     should_stash           : BOOLEAN,
     sequence_names         : Batches,
     should_overwrite       : BOOLEAN,
     should_write_keyframes : BOOLEAN,
     should_write_metadata  : BOOLEAN,
     action_name_prefix     : Prefixes]

\* ------------------------------------------------------ bpy.data.actions
\* An action's name is a base name and a number: <<"Walk", 0>> is "Walk",
\* <<"Walk", 1>> is "Walk.001".  An action is its f-curves (a function from
\* <<bone name, channel>>, the data path and array index, to the keyframe
\* points, frame -> value), its custom properties and use_fake_user.
NoKeyframes == <<>>

NoFCurves == [c \in {} |-> NoKeyframes]

NewAction ==
    [fcurves |-> NoFCurves, psa_sequence_name |-> NoName,
     psa_sequence_fps |-> 0, use_fake_user |-> FALSE]

\* bpy.data.actions.new(name=...): the name itself when it is free, else the
\* base name with the first free number.
RECURSIVE FirstFreeNumber(_, _, _)
FirstFreeNumber(base, n, taken) ==
    IF <<base, n>> \in taken THEN FirstFreeNumber(base, n + 1, taken) ELSE n

UniqueName(base, taken) == <<base, FirstFreeNumber(base, 0, taken)>>

\* The actions bpy.data holds before the import: an earlier "Walk", with
\* curves of its own, metadata and a fake user.
OldKeyframes == (0 :> 11) @@ (7 :> 13)

ExistingActions ==
    (<<"Walk", 0>> :>
        [fcurves |-> [c \in {<<"pelvis", 1>>, <<"pelvis", 5>>, <<"tail", 5>>} |-> OldKeyframes],
         psa_sequence_name |-> "Old", psa_sequence_fps |-> 15,
         use_fake_user |-> TRUE])

\* ------------------------------------------------------- bone mapping
ArmatureBoneNames(arm) == [i \in DOMAIN arm |-> arm[i].name]

\* list.index(x): the first position of x.
ListIndex(list, x) ==
    CHOOSE i \in DOMAIN list : list[i] = x /\ \A j \in 1..(i - 1) : list[j] # x

\* armature_data.bones[bone_name]
BoneNamed(arm, name) == arm[ListIndex(ArmatureBoneNames(arm), name)]

\* psa_to_armature_bone_indices (importer.py:62-71): PSA bone index ->
\* armature bone index, for the PSA bones whose name the armature has.
BoneIndices(arm) ==
    [i \in {k \in DOMAIN PsaBoneNames :
                PsaBoneNames[k] \in Range(ArmatureBoneNames(arm))} |->
        ListIndex(ArmatureBoneNames(arm), PsaBoneNames[i])]

\* missing_bone_names (importer.py:74)
MissingBoneNamesSwapped(arm) == Range(ArmatureBoneNames(arm)) \ Range(PsaBoneNames)

MissingBoneNames(arm) == Range(PsaBoneNames) \ Range(ArmatureBoneNames(arm))

\* list(sorted(names)) for the bone names of the model.
AlphabeticalRank(name) ==
    CASE name = "pelvis" -> 1 [] name = "root" -> 2 [] name = "spine" -> 3 [] OTHER -> 4

RECURSIVE SortedList(_)
SortedList(names) ==
    IF names = {} THEN <<>>
    ELSE LET first == CHOOSE n \in names :
                        \A m \in names : AlphabeticalRank(n) <= AlphabeticalRank(m)
         IN  <<first>> \o SortedList(names \ {first})

\* ---------------------------------------------------------- ImportBone
\* The slot import_bones holds for a PSA bone the armature lacks (None).
NoImportBone ==
    [mapped |-> FALSE, name |-> NoName, parent |-> NoName,
     orig_loc |-> <<0, 0, 0>>, orig_quat |-> QIdentity, post_quat |-> QIdentity]

\* import_bone.parent, as the key of import_bones_dict it was looked up
\* with (importer.py:99-100); NoName is None.
ImportParentAny(bone) == bone.parent

ImportParent(bone) ==
    IF bone.parent # NoName /\ bone.parent \in Range(PsaBoneNames)
    THEN bone.parent ELSE NoName

\* The ImportBone of the armature bone `name` (importer.py:91-118).
ImportBoneForConjugated(arm, name) ==
    LET bone   == BoneNamed(arm, name)
        parent == ImportParent(bone)
        orig   ==
            IF bone.has_aux
            THEN [quat |-> bone.aux_orig_quat, loc |-> bone.aux_orig_loc,
                  post |-> bone.aux_post_quat]
            ELSE IF parent # NoName
            THEN LET pbone == BoneNamed(arm, bone.parent)
                     pconj == QConj(QCanonical(pbone.rotation))
                     quat  == QConj(QRotate(QCanonical(bone.rotation), pconj))
                 IN  [quat |-> quat,
                      loc  |-> VRotate(VSub(bone.translation, pbone.translation), pconj),
                      post |-> QConj(quat)]
            ELSE [quat |-> QConj(QCanonical(bone.rotation)), loc |-> bone.translation,
                  post |-> QCanonical(bone.rotation)]
    IN  [mapped |-> TRUE, name |-> name, parent |-> parent,
         orig_loc |-> orig.loc, orig_quat |-> orig.quat, post_quat |-> orig.post]

ImportBoneFor(arm, name) ==
    LET bone   == BoneNamed(arm, name)
        parent == ImportParent(bone)
        orig   ==
            IF bone.has_aux
            THEN [quat |-> bone.aux_orig_quat, loc |-> bone.aux_orig_loc,
                  post |-> bone.aux_post_quat]
            ELSE IF parent # NoName
            THEN LET pbone == BoneNamed(arm, bone.parent)
                     pconj == QConj(QCanonical(pbone.rotation))
                     quat  == QConj(QRotate(QCanonical(bone.rotation), pconj))
                 IN  [quat |-> quat,
                      loc  |-> VRotate(VSub(bone.translation, pbone.translation), pconj),
                      post |-> QConj(quat)]
            ELSE [quat |-> QCanonical(bone.rotation), loc |-> bone.translation,
                  post |-> QConj(QCanonical(bone.rotation))]
    IN  [mapped |-> TRUE, name |-> name, parent |-> parent,
         orig_loc |-> orig.loc, orig_quat |-> orig.quat, post_quat |-> orig.post]

\* import_bones (importer.py:82-95): one slot per PSA bone, in file order.
ImportBones(arm, indices) ==
    [i \in DOMAIN PsaBoneNames |->
        IF i \in DOMAIN indices THEN ImportBoneFor(arm, PsaBoneNames[i])
        ELSE NoImportBone]

\* The keys of import_bones_dict (importer.py:94).
ImportBonesDictKeys(bones) == {bones[i].name : i \in {k \in DOMAIN bones : bones[k].mapped}}

\* ------------------------------------------------ calculate_fcurve_data
CalculateFcurveData(import_bone, key_data) ==
    LET key_rotation == QFromChannels(key_data)
        key_location == <<key_data[5], key_data[6], key_data[7]>>
        quat0 == QRotate(import_bone.post_quat, import_bone.orig_quat)
        q     == QRotate(import_bone.post_quat,
                         IF import_bone.parent = NoName
                         THEN QConj(key_rotation) ELSE key_rotation)
        quat  == QRotate(quat0, QConj(q))
        loc   == VRotate(VSub(key_location, import_bone.orig_loc),
                         QConj(import_bone.post_quat))
    IN  QToChannels(quat) \o loc

\* ------------------------------------------- one sequence (importer.py:122-207)
MappedSlots(bones) == {b \in DOMAIN bones : bones[b].mapped}

\* The f-curves of importer.py:138-151: seven per mapped bone, under the
\* pose bone's data paths, none with a keyframe yet.
CurveKeys(bones) == {<<bones[b].name, c>> : b \in MappedSlots(bones), c \in Channels}

\* importer.py:158-165: every slot of a mapped bone converted in place.
ConvertMatrix(matrix, bones, frame_count) ==
    Tuple([f \in DOMAIN matrix |->
        Tuple([b \in DOMAIN matrix[f] |->
            IF bones[b].mapped /\ f <= frame_count
            THEN CalculateFcurveData(bones[b], matrix[f][b])
            ELSE matrix[f][b]])])

\* sequence_data_matrix[:, bone_index, fcurve_index]
Column(matrix, b, c) == Tuple([f \in DOMAIN matrix |-> matrix[f][b][c]])

\* np.ones(sequence_data_matrix.shape) (importer.py:155)
Zeros(matrix) ==
    Tuple([f \in DOMAIN matrix |-> Tuple([b \in DOMAIN matrix[f] |->
        Tuple([c \in Channels |-> 0])])])

Ones(matrix) ==
    Tuple([f \in DOMAIN matrix |-> Tuple([b \in DOMAIN matrix[f] |->
        Tuple([c \in Channels |-> 1])])])

\* importer.py:169-183: the write matrix after the reducer.
CleanedWriteMatrix(matrix, bones, threshold) ==
    LET ones   == Ones(matrix)
        zeroed == Tuple([b \in DOMAIN bones |->
                    Tuple([c \in Channels |->
                        IF bones[b].mapped
                        THEN Zeroed(Column(matrix, b, c), threshold)
                        ELSE <<>>])])
    IN  Tuple([f \in DOMAIN matrix |->
            Tuple([b \in DOMAIN matrix[f] |->
                Tuple([c \in Channels |->
                    IF bones[b].mapped /\ zeroed[b][c][f] THEN 0
                    ELSE ones[f][b][c]])])])

\* importer.py:155, 169: the write matrix, cleaned when should_clean_keys.
WriteMatrixAlwaysCleaned(matrix, bones, clean) ==
    CleanedWriteMatrix(matrix, bones, Threshold)

WriteMatrix(matrix, bones, clean) ==
    IF clean THEN CleanedWriteMatrix(matrix, bones, Threshold) ELSE Ones(matrix)

\* any(keyframe_write_matrix[frame_index, bone_index])
AnyMarked(write, f, b) == \E c \in Channels : write[f][b][c] # 0

\* importer.py:186-198: the keyframe points of every f-curve once the
\* frames have been written (frame_index is f - 1).
WrittenFramesOfAnyChannel(write, b, c, frame_count) ==
    {f \in 1..frame_count : AnyMarked(write, f, b)}

WrittenFrames(write, b, c, frame_count) ==
    {f \in 1..frame_count : AnyMarked(write, f, b) /\ write[f][b][c] # 0}

SlotOfArmatureIndex(bones, indices, b) ==
    IF indices[b] \in DOMAIN bones THEN indices[b] ELSE b

SlotOfBone(bones, indices, b) == b

WriteKeyframes(matrix, write, bones, indices, frame_count) ==
    [k \in CurveKeys(bones) |->
        LET b == CHOOSE s \in MappedSlots(bones) : bones[s].name = k[1]
            c == k[2]
        IN  [i \in {f - 1 : f \in WrittenFrames(write, b, c, frame_count)} |->
                matrix[i + 1][SlotOfBone(bones, indices, b)][c]]]

\* importer.py:153-198 for one sequence: the data matrix read and
\* converted, the write matrix, and the keyframe points of the f-curves.
ProcessSequence(name, bones, indices, clean) ==
    LET count  == SequenceIndex[name].frame_count
        matrix == ConvertMatrix(ReadSequenceDataMatrix(name), bones, count)
        write  == WriteMatrix(matrix, bones, clean)
    IN  [matrix |-> matrix, write |-> write,
         curves |-> WriteKeyframes(matrix, write, bones, indices, count)]

\* ProcessSequence as a table over the arguments the armatures give it, so
\* that each value is computed once.
ProcessArguments ==
    {<<n, ImportBones(a, BoneIndices(a)), BoneIndices(a), c>> :
        n \in IndexedNames, a \in Armatures, c \in BOOLEAN}

Processed ==
    [k \in ProcessArguments |-> ProcessSequence(k[1], k[2], k[3], k[4])] @@ <<>>

\* ---------------------------------------------------------------- state
VARIABLES
    armature,          \* armature_object.data.bones
    imports,           \* how many times import_psa has been called
    animation_data,    \* armature_object.animation_data: is it there, its action
    nla_tracks,        \* armature_object.animation_data.nla_tracks
    bpy_actions,       \* bpy.data.actions: action name -> action
    stdout,            \* what import_psa printed: the lists of missing bones
    pc,                \* where import_psa is: idle, loop, done, raised
    raised,            \* the exception that left import_psa, or NoException
    returned,          \* what import_psa returned to its caller
    options,           \* the PsaImportOptions of the call
    psa_to_armature_bone_indices,
    import_bones,
    seq_pos,           \* how many of options.sequence_names the loop has taken
    actions,           \* the list `actions`: names of the actions produced
    sequence,          \* the loop's sequence name and the action it works on
    sequence_data_matrix,
    keyframe_write_matrix,
    fcurve_frame_data, \* the reducer alone: one f-curve's frame data,
    thresholds,        \*   the two thresholds it is run with,
    write_marks,       \*   the marks of each run,
    reducer_pc,        \*   and whether it has run
    name_bytes,        \* the decoder alone: the bytes of a name of the file,
    name_place,        \*   whose name it is, the bone's or the sequence's,
    psa_import,        \*   the scene's sequence_list, psa.bones and psa_error,
    decoded,           \*   what import_psa decoded, or the exception raised,
    decode_pc          \*   and how far the two have run

import_vars ==
    <<armature, imports, animation_data, nla_tracks, bpy_actions, stdout, pc,
      raised, returned, options, psa_to_armature_bone_indices, import_bones, seq_pos,
      actions, sequence, sequence_data_matrix, keyframe_write_matrix>>

reducer_vars == <<fcurve_frame_data, thresholds, write_marks, reducer_pc>>

decode_vars == <<name_bytes, name_place, psa_import, decoded, decode_pc>>

vars == <<import_vars, reducer_vars, decode_vars>>

NoAction == <<NoName, 0>>

NoOptions ==
    [should_clean_keys |-> TRUE, should_use_fake_user |-> FALSE,
     should_stash |-> FALSE, sequence_names |-> <<>>, should_overwrite |-> FALSE,
     should_write_keyframes |-> TRUE, should_write_metadata |-> TRUE,
     action_name_prefix |-> ""]

\* What import_psa handed back: nothing yet, or None (it has no return
\* statement), or a list.
NotReturned == [kind |-> "pending", items |-> <<>>]

NoneValue == [kind |-> "None", items |-> <<>>]

\* The exception that left import_psa: its type and the key or name it is
\* about.
NoException == [type |-> NoName, key |-> NoName]

KeyError(key) == [type |-> "KeyError", key |-> key]

FormatError(name) == [type |-> "FormatError", key |-> name]

\* The armature before the call: any of the armatures, with or without
\* animation data; when it has animation data the old "Walk" is its action.
InitImport ==
    /\ armature \in Armatures
    /\ imports = 0
    /\ animation_data \in {[exists |-> FALSE, action |-> NoAction],
                           [exists |-> TRUE, action |-> <<"Walk", 0>>]}
    /\ nla_tracks = <<>>
    /\ bpy_actions = ExistingActions
    /\ stdout = <<>>
    /\ pc = "idle"
    /\ raised = NoException
    /\ returned = NotReturned
    /\ options = NoOptions
    /\ psa_to_armature_bone_indices = <<>>
    /\ import_bones = <<>>
    /\ seq_pos = 0
    /\ actions = <<>>
    /\ sequence = [name |-> NoName, action |-> NoAction]
    /\ sequence_data_matrix = <<>>
    /\ keyframe_write_matrix = <<>>

ReducerIdle ==
    /\ fcurve_frame_data = <<>>
    /\ thresholds = <<0, 0>>
    /\ write_marks = <<<<>>, <<>>>>
    /\ reducer_pc = "off"

\* The scene's psa_import before a file is loaded, and no name decoded.
NoListing == [sequence_list |-> <<>>, bones |-> <<>>, psa_error |-> NoName]

NotDecoded == [raised |-> NoName, bone_names |-> <<>>, sequence_name |-> <<>>]

DecoderIdle ==
    /\ name_bytes = <<>>
    /\ name_place = NoName
    /\ psa_import = NoListing
    /\ decoded = NotDecoded
    /\ decode_pc = "off"

Init == InitImport /\ ReducerIdle /\ DecoderIdle

\* import_psa up to its loop (importer.py:29-121): the bone mapping, the
\* report of the missing bones and the import bones.  `sequences` is a lazy
\* map: no name is looked up yet.
CallWith(opts) ==
    /\ imports' = imports + 1
    /\ returned' = NotReturned
    /\ options' = opts
    /\ psa_to_armature_bone_indices' = BoneIndices(armature)
    /\ stdout' = IF MissingBoneNames(armature) # {}
                 THEN Append(stdout, SortedList(MissingBoneNames(armature)))
                 ELSE stdout
    /\ import_bones' = ImportBones(armature, BoneIndices(armature))
    /\ LET bones  == ImportBones(armature, BoneIndices(armature))
           failed == {b \in MappedSlots(bones) :
                        /\ bones[b].parent # NoName
                        /\ bones[b].parent \notin ImportBonesDictKeys(bones)}
       IN  /\ pc' = IF failed # {} THEN "raised" ELSE "loop"
           /\ raised' = IF failed # {}
                        THEN KeyError(bones[CHOOSE b \in failed :
                                                \A o \in failed : b <= o].parent)
                        ELSE raised
    /\ seq_pos' = 0
    /\ actions' = <<>>
    /\ UNCHANGED <<armature, animation_data, nla_tracks, bpy_actions,
                   sequence, sequence_data_matrix, keyframe_write_matrix>>
    /\ UNCHANGED <<reducer_vars, decode_vars>>

\* The name the loop is about to take from options.sequence_names.
NextName == options.sequence_names[seq_pos + 1]

InLoop == pc = "loop" /\ seq_pos < Len(options.sequence_names)

\* sequences is map(lambda x: psa_reader.sequences[x], ...): the lookup of
\* a name happens when the loop asks for the next sequence, and a name the
\* index lacks raises KeyError out of import_psa (importer.py:30, 122).
SequenceNotFound ==
    /\ InLoop
    /\ NextName \notin IndexedNames
    /\ pc' = "raised"
    /\ raised' = KeyError(NextName)
    /\ UNCHANGED <<armature, imports, animation_data, nla_tracks, bpy_actions,
                   stdout, returned, options, psa_to_armature_bone_indices, import_bones,
                   seq_pos, actions, sequence, sequence_data_matrix,
                   keyframe_write_matrix>>
    /\ UNCHANGED <<reducer_vars, decode_vars>>

\* importer.py:124-130: the action of the sequence, reused or new.
ActionName(name) == <<options.action_name_prefix \o name, 0>>

ReusesAlways(name) == ActionName(name) \in DOMAIN bpy_actions

Reuses(name) == options.should_overwrite /\ ActionName(name) \in DOMAIN bpy_actions

TargetActionNew(name) ==
    UniqueName(options.action_name_prefix \o name, DOMAIN bpy_actions)

TargetAction(name) ==
    IF Reuses(name) THEN ActionName(name)
    ELSE UniqueName(options.action_name_prefix \o name, DOMAIN bpy_actions)

TargetRecord(name) == IF Reuses(name) THEN bpy_actions[ActionName(name)] ELSE NewAction

\* importer.py:200-205: the metadata and the fake user.
WithMetadata(action, name) ==
    [action EXCEPT
        !.psa_sequence_name = IF options.should_write_metadata THEN name ELSE @,
        !.psa_sequence_fps  = IF options.should_write_metadata
                              THEN SequenceIndex[name].fps ELSE @,
        !.use_fake_user     = options.should_use_fake_user]

\* One turn of the loop that runs to its end (importer.py:122-207).
ImportSequence ==
    /\ InLoop
    /\ NextName \in IndexedNames
    /\ LET name   == NextName
           target == TargetAction(name)
           done   == Processed[<<name, import_bones, psa_to_armature_bone_indices,
                                 options.should_clean_keys>>]
           matrix == done.matrix
           write  == done.write
           filled == IF options.should_write_keyframes
                     THEN [TargetRecord(name) EXCEPT !.fcurves = done.curves]
                     ELSE TargetRecord(name)
       IN  /\ bpy_actions' = (target :> WithMetadata(filled, name)) @@ bpy_actions
           /\ sequence' = [name |-> name, action |-> target]
           /\ actions' = Append(actions, target)
           /\ sequence_data_matrix' =
                 IF options.should_write_keyframes THEN matrix ELSE sequence_data_matrix
           /\ keyframe_write_matrix' =
                 IF options.should_write_keyframes THEN write ELSE keyframe_write_matrix
    /\ seq_pos' = seq_pos + 1
    /\ UNCHANGED <<armature, imports, animation_data, nla_tracks, stdout, pc, raised,
                   returned, options, psa_to_armature_bone_indices, import_bones>>
    /\ UNCHANGED <<reducer_vars, decode_vars>>

\* One turn of the loop in which read_sequence_data_matrix fails
\* (importer.py:154): the action is there, its old f-curves are removed and
\* the new ones created, and the exception leaves import_psa.
SequenceReadFails ==
    /\ InLoop
    /\ NextName \in IndexedNames
    /\ options.should_write_keyframes
    /\ LET name   == NextName
           target == TargetAction(name)
           empty  == [k \in CurveKeys(import_bones) |-> NoKeyframes]
       IN  /\ bpy_actions' =
                 (target :> [TargetRecord(name) EXCEPT !.fcurves = empty]) @@ bpy_actions
           /\ sequence' = [name |-> name, action |-> target]
    /\ pc' = "raised"
    /\ raised' = FormatError(NextName)
    /\ UNCHANGED <<armature, imports, animation_data, nla_tracks, stdout, returned,
                   options,
                   psa_to_armature_bone_indices, import_bones, seq_pos, actions,
                   sequence_data_matrix, keyframe_write_matrix>>
    /\ UNCHANGED <<reducer_vars, decode_vars>>

\* importer.py:209-217: the stash, and the return.
StashTrackUnmuted(action) ==
    [name |-> action, mute |-> FALSE,
     strips |-> <<[name |-> action, start |-> 0, action |-> action]>>]

StashTrack(action) ==
    [name |-> action, mute |-> TRUE,
     strips |-> <<[name |-> action, start |-> 0, action |-> action]>>]

Finish ==
    /\ pc = "loop"
    /\ seq_pos = Len(options.sequence_names)
    /\ animation_data' =
          IF options.should_stash /\ ~animation_data.exists
          THEN [exists |-> TRUE, action |-> NoAction] ELSE animation_data
    /\ nla_tracks' =
          IF options.should_stash
          THEN nla_tracks \o [i \in DOMAIN actions |-> StashTrack(actions[i])]
          ELSE nla_tracks
    /\ pc' = "done"
    /\ returned' = NoneValue
    /\ UNCHANGED <<armature, imports, bpy_actions, stdout, raised, options,
                   psa_to_armature_bone_indices, import_bones, seq_pos, actions,
                   sequence, sequence_data_matrix, keyframe_write_matrix>>
    /\ UNCHANGED <<reducer_vars, decode_vars>>

Call == pc = "idle" /\ \E opts \in Options : CallWith(opts)

\* The operator runs again once import_psa has returned: the options are
\* the scene's, unchanged, and so are the file and the armature.
CallAgain == pc = "done" /\ imports < MaxImports /\ CallWith(options)

Next ==
    \/ Call
    \/ CallAgain
    \/ SequenceNotFound
    \/ ImportSequence
    \/ SequenceReadFails
    \/ Finish

Spec == Init /\ [][Next]_vars

\* ------------------------------------------------- the reducer on its own
\* The pass of importer.py:177-183 applied to any frame data of one f-curve
\* under two thresholds.
FrameData == UNION {[1..n -> 0..MaxVal] : n \in 0..MaxLen}

ThresholdPairs == {p \in (0..MaxThreshold) \X (0..MaxThreshold) : p[1] <= p[2]}

InitReducer ==
    /\ armature = MakeArmature(<<"pelvis", "spine">>, FALSE)
    /\ imports = 0
    /\ animation_data = [exists |-> FALSE, action |-> NoAction]
    /\ nla_tracks = <<>>
    /\ bpy_actions = ExistingActions
    /\ stdout = <<>>
    /\ pc = "idle"
    /\ raised = NoException
    /\ returned = NotReturned
    /\ options = NoOptions
    /\ psa_to_armature_bone_indices = <<>>
    /\ import_bones = <<>>
    /\ seq_pos = 0
    /\ actions = <<>>
    /\ sequence = [name |-> NoName, action |-> NoAction]
    /\ sequence_data_matrix = <<>>
    /\ keyframe_write_matrix = <<>>
    /\ fcurve_frame_data \in FrameData
    /\ thresholds \in ThresholdPairs
    /\ write_marks = <<<<>>, <<>>>>
    /\ reducer_pc = "input"
    /\ DecoderIdle

RunReducer ==
    /\ reducer_pc = "input"
    /\ write_marks' = <<CleanMarks(fcurve_frame_data, thresholds[1]),
                        CleanMarks(fcurve_frame_data, thresholds[2])>>
    /\ reducer_pc' = "done"
    /\ UNCHANGED <<fcurve_frame_data, thresholds>>
    /\ UNCHANGED <<import_vars, decode_vars>>

SpecReducer == InitReducer /\ [][RunReducer]_vars

\* ------------------------------------------------- the decoder on its own
\* A PSA file with one bone and one sequence.  One of the two names is any
\* byte string of up to MaxNameLen bytes, the other is plain ASCII.
NameBytes == UNION {[1..n -> Bytes] : n \in 1..MaxNameLen}

AsciiPelvis == <<112, 101, 108, 118, 105, 115>>

AsciiWalk == <<87, 97, 108, 107>>

BoneNameBytes == IF name_place = "bone" THEN name_bytes ELSE AsciiPelvis

SequenceNameBytes == IF name_place = "sequence" THEN name_bytes ELSE AsciiWalk

\* An item of a collection property right after add(): its name is empty.
NewItem == <<>>

UnicodeDecodeError == "UnicodeDecodeError"

InitDecoder ==
    /\ armature = MakeArmature(<<"pelvis", "spine">>, FALSE)
    /\ imports = 0
    /\ animation_data = [exists |-> FALSE, action |-> NoAction]
    /\ nla_tracks = <<>>
    /\ bpy_actions = ExistingActions
    /\ stdout = <<>>
    /\ pc = "idle"
    /\ raised = NoException
    /\ returned = NotReturned
    /\ options = NoOptions
    /\ psa_to_armature_bone_indices = <<>>
    /\ import_bones = <<>>
    /\ seq_pos = 0
    /\ actions = <<>>
    /\ sequence = [name |-> NoName, action |-> NoAction]
    /\ sequence_data_matrix = <<>>
    /\ keyframe_write_matrix = <<>>
    /\ ReducerIdle
    /\ name_bytes \in NameBytes
    /\ name_place \in {"bone", "sequence"}
    /\ psa_import = NoListing
    /\ decoded = NotDecoded
    /\ decode_pc = "file"

\* load_psa_file (importer.py:225-241): the sequence names are decoded into
\* the list, then the bone names; an item is added before its name is
\* decoded, and an exception ends the listing and becomes psa_error.
LoadPsaFile ==
    /\ decode_pc = "file"
    /\ psa_import' =
          IF ~Decodable(SequenceNameBytes)
          THEN [sequence_list |-> <<NewItem>>, bones |-> <<>>,
                psa_error |-> UnicodeDecodeError]
          ELSE IF ~Decodable(BoneNameBytes)
          THEN [sequence_list |-> <<Decode(SequenceNameBytes)>>, bones |-> <<NewItem>>,
                psa_error |-> UnicodeDecodeError]
          ELSE [sequence_list |-> <<Decode(SequenceNameBytes)>>,
                bones |-> <<Decode(BoneNameBytes)>>, psa_error |-> NoName]
    /\ decode_pc' = "listed"
    /\ UNCHANGED <<name_bytes, name_place, decoded>>
    /\ UNCHANGED <<import_vars, reducer_vars>>

\* The names import_psa decodes: each bone's (importer.py:66, before
\* anything else is done) and the sequence's (importer.py:124); the
\* exception of a byte without a character leaves import_psa.
ImportDecodesNames ==
    /\ decode_pc = "listed"
    /\ decoded' =
          IF ~Decodable(BoneNameBytes)
          THEN [raised |-> UnicodeDecodeError, bone_names |-> <<>>, sequence_name |-> <<>>]
          ELSE IF ~Decodable(SequenceNameBytes)
          THEN [raised |-> UnicodeDecodeError, bone_names |-> <<Decode(BoneNameBytes)>>,
                sequence_name |-> <<>>]
          ELSE [raised |-> NoName, bone_names |-> <<Decode(BoneNameBytes)>>,
                sequence_name |-> Decode(SequenceNameBytes)]
    /\ decode_pc' = "imported"
    /\ UNCHANGED <<name_bytes, name_place, psa_import>>
    /\ UNCHANGED <<import_vars, reducer_vars>>

NextDecoder == LoadPsaFile \/ ImportDecodesNames

SpecDecoder == InitDecoder /\ [][NextDecoder]_vars

\* =============================================================== claims
Ended == pc \in {"done", "raised"}

RequestedNames == options.sequence_names

\* The action produced for the requested name at position i, if any.
ProducedFor(i) ==
    {j \in DOMAIN actions :
        actions[j][1] = options.action_name_prefix \o RequestedNames[i]}

\* C1: when one requested name is absent from the index, every other
\* requested sequence of the batch, before or after it, is still processed
\* and gets its output clip.
C1_UnknownNameIsConfined ==
    (Ended /\ raised.type # "FormatError") =>
        \A i \in DOMAIN RequestedNames :
            RequestedNames[i] \in IndexedNames => ProducedFor(i) # {}

\* The complete f-curves of an import of `name` for the import bones of the
\* state.
CompleteCurves(name) ==
    Processed[<<name, import_bones, psa_to_armature_bone_indices,
                options.should_clean_keys>>].curves

\* C2: a fatal error while a sequence is processed leaves its clip either
\* with the complete set of curves for all mapped bones and channels, or
\* absent, or exactly as it was before the import.
C2_SequenceIsAtomic ==
    raised.type = "FormatError" =>
        LET a == sequence.action
        IN  \/ a \notin DOMAIN bpy_actions
            \/ a \in DOMAIN ExistingActions /\ bpy_actions[a] = ExistingActions[a]
            \/ bpy_actions[a].fcurves = CompleteCurves(sequence.name)

\* The requested name at position i collides: overwriting is off and an
\* action named prefix + name was there before the import.
Collides(i) ==
    /\ ~options.should_overwrite
    /\ <<options.action_name_prefix \o RequestedNames[i], 0>> \in DOMAIN ExistingActions

\* C3: with should_overwrite false and an action named prefix + sequence
\* name already there, importing the sequence does not fail for it (the turn
\* of the loop that completes is possible), the action produced is a new one
\* under another name with the same base, and the action that was there
\* keeps its curves, keyframes, metadata and fake user.
C3_CollisionMakesNewAction ==
    /\ (InLoop /\ NextName \in IndexedNames /\ Collides(seq_pos + 1))
            => ENABLED ImportSequence
    /\ \A i \in 1..seq_pos :
            Collides(i) =>
                /\ actions[i] \notin DOMAIN ExistingActions
                /\ actions[i] \in DOMAIN bpy_actions
                /\ actions[i][1] = options.action_name_prefix \o RequestedNames[i]
                /\ \A j \in 1..seq_pos : j # i => actions[j] # actions[i]
                /\ \A a \in DOMAIN ExistingActions :
                        a \in DOMAIN bpy_actions /\ bpy_actions[a] = ExistingActions[a]
    /\ (raised.type = "FormatError" /\ Collides(seq_pos + 1))
            => \A a \in DOMAIN ExistingActions :
                    a \in DOMAIN bpy_actions /\ bpy_actions[a] = ExistingActions[a]

\* C3's case: "Walk" was there, the import took Walk without overwriting
\* and produced "Walk.001" with keyframes, metadata and fake user of its own.
C3_Witness ==
    /\ pc = "done"
    /\ \E i \in 1..seq_pos :
        /\ Collides(i)
        /\ actions[i] = <<"Walk", 1>>
        /\ options.should_write_keyframes
        /\ options.should_write_metadata
        /\ ~options.should_use_fake_user
        /\ bpy_actions[actions[i]].fcurves # ExistingActions[<<"Walk", 0>>].fcurves

\* The PSA bone names the target armature lacks, and those it has.
AbsentNames ==
    {PsaBoneNames[i] : i \in DOMAIN PsaBoneNames} \ {armature[j].name : j \in DOMAIN armature}

SharedNames ==
    {PsaBoneNames[i] : i \in DOMAIN PsaBoneNames} \cap {armature[j].name : j \in DOMAIN armature}

IsSortedList(list, names) ==
    /\ Range(list) = names
    /\ \A i, j \in DOMAIN list :
            i < j => AlphabeticalRank(list[i]) < AlphabeticalRank(list[j])

\* C4 as the spec states it: the absent bone names are handed back to the
\* caller as a list of warnings.
C4_WarningsHandedBack ==
    (pc = "done" /\ AbsentNames # {}) =>
        returned.kind = "list" /\ Range(returned.items) = AbsentNames

\* C4, amended: when the target armature lacks a PSA bone, import_psa raises
\* nothing for it (the only exceptions are the KeyError of a sequence name
\* the index lacks and the reader's failure, and the turn of the loop and the
\* return are possible), every action written gets the seven curves of each
\* PSA bone the armature has, keyed at frame 0, and the absent names are
\* printed, sorted, once a call; import_psa returns None and no list of
\* warnings.
C4_MissingBonesArePrinted ==
    (pc # "idle" /\ AbsentNames # {}) =>
        /\ raised.type = "KeyError" => raised.key \in RequestableNames \ IndexedNames
        /\ raised.type \in {NoName, "KeyError", "FormatError"}
        /\ (InLoop /\ NextName \in IndexedNames) => ENABLED ImportSequence
        /\ (pc = "loop" /\ ~InLoop) => ENABLED Finish
        /\ Len(stdout) = imports
        /\ \A k \in DOMAIN stdout : IsSortedList(stdout[k], AbsentNames)
        /\ returned.kind # "list"
        /\ pc = "done" => returned = NoneValue
        /\ options.should_write_keyframes =>
                \A i \in 1..seq_pos :
                    LET curves == bpy_actions[actions[i]].fcurves
                    IN  /\ DOMAIN curves = SharedNames \X Channels
                        /\ \A k \in DOMAIN curves : 0 \in DOMAIN curves[k]

\* C4's case: the armature has the pelvis and lacks the spine, the import
\* ran to its end and wrote the pelvis curves of an action.
C4_Witness ==
    /\ pc = "done"
    /\ AbsentNames = {"spine"}
    /\ stdout = << <<"spine">> >>
    /\ options.should_write_keyframes
    /\ seq_pos >= 1
    /\ <<"pelvis", 5>> \in DOMAIN bpy_actions[actions[1]].fcurves
    /\ <<"spine", 5>> \notin DOMAIN bpy_actions[actions[1]].fcurves

\* ---------------------------------------------- the reducer's claims
\* The state holds the matrices of the loop's last turn.
HasMatrix ==
    /\ pc # "idle"
    /\ seq_pos >= 1
    /\ options.should_write_keyframes
    /\ raised.type # "FormatError"

\* The write matrix the reducer of importer.py:169-183 gives for the data
\* matrix of the state when its threshold is t, as a table computed once.
ReducedTable ==
    [k \in ProcessArguments |->
        Tuple([i \in 1..(MaxThreshold + 1) |->
            CleanedWriteMatrix(Processed[k].matrix, k[2], i - 1)])] @@ <<>>

ReducedWith(t) ==
    ReducedTable[<<sequence.name, import_bones, psa_to_armature_bone_indices,
                   options.should_clean_keys>>][t + 1]

\* The last frame before f that the write matrix w marks for (b, c).
LastMarkedBefore(w, b, c, f) ==
    CHOOSE g \in 1..(f - 1) :
        w[g][b][c] = 1 /\ \A h \in (g + 1)..(f - 1) : w[h][b][c] = 0

FollowsLastWritten(data, w, b, c, t) ==
    /\ w[1][b][c] = 1
    /\ \A f \in 2..Len(data) :
        /\ w[f][b][c] \in {0, 1}
        /\ w[f][b][c] = 0 <=>
              Abs(data[f][b][c] - data[LastMarkedBefore(w, b, c, f)][b][c]) < t

MarkedChannels(w, f, b) == {c \in Channels : w[f][b][c] = 1}

\* C5: with key cleaning on, the write matrix of each (mapped bone, channel)
\* is that of one forward pass: frame 0 marked, a later frame unmarked iff
\* its value is within the threshold of the value of the most recent marked
\* frame of the same channel (not of the previous frame), for the
\* importer's threshold and for any other; a frame equal to frame 0 right
\* after it is unmarked on all 7 channels, and the first frame that leaves
\* frame 0 by the threshold or more on the translation only is marked on
\* exactly the 3 translation channels.
C5_ReducerFollowsLastWritten ==
    (HasMatrix /\ options.should_clean_keys) =>
        LET data == sequence_data_matrix
            w    == keyframe_write_matrix
        IN  /\ w = ReducedWith(Threshold)
            /\ \A t \in 0..MaxThreshold : \A b \in MappedSlots(import_bones) :
                  \A c \in Channels :
                      FollowsLastWritten(data, ReducedWith(t), b, c, t)
            /\ \A b \in MappedSlots(import_bones) :
                  /\ (Len(data) >= 2 /\ data[2][b] = data[1][b])
                        => MarkedChannels(w, 2, b) = {}
                  /\ \A f \in 3..Len(data) :
                        ( /\ \A g \in 2..(f - 1) : data[g][b] = data[1][b]
                          /\ \A c \in LocationChannels :
                                Abs(data[f][b][c] - data[1][b][c]) >= Threshold
                          /\ \A c \in RotationChannels :
                                Abs(data[f][b][c] - data[1][b][c]) < Threshold )
                        => MarkedChannels(w, f, b) = LocationChannels

\* C5's case: a bone whose frame 1 equals frame 0 and whose frame 2 is
\* marked on the translation alone, and a channel marked at a frame whose
\* value is within the threshold of the previous frame's.
C5_Witness ==
    /\ HasMatrix /\ options.should_clean_keys
    /\ Len(sequence_data_matrix) >= 3
    /\ \E b \in MappedSlots(import_bones) :
        /\ sequence_data_matrix[2][b] = sequence_data_matrix[1][b]
        /\ MarkedChannels(keyframe_write_matrix, 2, b) = {}
        /\ MarkedChannels(keyframe_write_matrix, 3, b) = LocationChannels
    /\ \E b \in MappedSlots(import_bones) : \E c \in Channels :
        /\ keyframe_write_matrix[3][b][c] = 1
        /\ Abs(sequence_data_matrix[3][b][c] - sequence_data_matrix[2][b][c]) < Threshold

\* C6: for a sequence with a frame, the entry of the write matrix at frame 0
\* is set for every bone slot and every channel once the reducer has run or
\* has been skipped, with the importer's threshold and with any other.
C6_FrameZeroIsMarked ==
    (HasMatrix /\ Len(keyframe_write_matrix) >= 1) =>
        \A b \in DOMAIN PsaBoneNames : \A c \in Channels :
            /\ keyframe_write_matrix[1][b][c] = 1
            /\ \A t \in 0..MaxThreshold : ReducedWith(t)[1][b][c] = 1

\* C6's case: the reducer ran over a matrix with an unmapped slot and
\* unmarked a later frame.
C6_Witness ==
    /\ HasMatrix /\ options.should_clean_keys
    /\ MappedSlots(import_bones) # DOMAIN PsaBoneNames
    /\ \E f \in 2..Len(keyframe_write_matrix) : \E b \in MappedSlots(import_bones) :
            keyframe_write_matrix[f][b][1] = 0

\* The number of frames each run of the reducer alone marked written.
WrittenCount(i) == SumSeq(write_marks[i])

\* C7 as the spec states it: for any frame data and any thresholds
\* t1 <= t2 the reducer marks no more frames with t2 than with t1.
C7_ThresholdMonotone ==
    reducer_pc = "done" => WrittenCount(2) <= WrittenCount(1)

\* C7, amended: that holds for frame data of at most three frames, and for
\* any frame data when t1 = 0 (every frame is then marked); with four frames
\* or more a larger threshold can mark more frames (0, 3, 5, 1: two frames
\* with threshold 3, three with threshold 4).  At least the first frame and
\* at most every frame is marked.
C7_MonotoneUpToThreeFrames ==
    reducer_pc = "done" =>
        /\ (Len(fcurve_frame_data) <= 3 \/ thresholds[1] = 0)
                => WrittenCount(2) <= WrittenCount(1)
        /\ thresholds[1] = 0 => WrittenCount(1) = Len(fcurve_frame_data)
        /\ \A i \in {1, 2} :
                /\ Len(write_marks[i]) = Len(fcurve_frame_data)
                /\ WrittenCount(i) <= Len(fcurve_frame_data)
                /\ Len(fcurve_frame_data) >= 1 => WrittenCount(i) >= 1

\* C7's case: three frames, two different positive thresholds, and the
\* larger one marks strictly fewer frames.
C7_Witness ==
    /\ reducer_pc = "done"
    /\ Len(fcurve_frame_data) = 3
    /\ 0 < thresholds[1] /\ thresholds[1] < thresholds[2]
    /\ 1 < WrittenCount(2) /\ WrittenCount(2) < WrittenCount(1)

\* ------------------------------------------------- the writer's claims
FrameCountOf(i) == SequenceIndex[RequestedNames[i]].frame_count

\* C8: with key cleaning off and keyframe writing on, after the import of a
\* sequence each of the 7 curves of every mapped bone holds exactly one
\* keyframe for every frame index 0..frame_count-1.
C8_EveryFrameWritten ==
    (pc # "idle" /\ ~options.should_clean_keys /\ options.should_write_keyframes) =>
        \A i \in 1..seq_pos :
            LET curves == bpy_actions[actions[i]].fcurves
            IN  /\ DOMAIN curves = SharedNames \X Channels
                /\ \A k \in DOMAIN curves :
                        DOMAIN curves[k] = 0..(FrameCountOf(i) - 1)

\* C8's case: Walk imported without cleaning onto an armature with both
\* bones: the spine's x curve has all its frames.
C8_Witness ==
    /\ pc = "done"
    /\ ~options.should_clean_keys /\ options.should_write_keyframes
    /\ SharedNames = {"pelvis", "spine"}
    /\ \E i \in 1..seq_pos :
        /\ RequestedNames[i] = "Walk"
        /\ Cardinality(DOMAIN bpy_actions[actions[i]].fcurves[<<"spine", 5>>]) = MaxFrames

\* The slot of import_bones that holds the bone named n.
SlotNamed(n) == CHOOSE b \in MappedSlots(import_bones) : import_bones[b].name = n

\* C9: the curve of (mapped bone, channel) has a keyframe at a frame iff the
\* write matrix entry of that frame, bone and channel is set: a frame and
\* bone with all 7 entries unset gets no keyframe at all, and with some
\* entry set only the set channels get one.
C9_KeyframeIffMarked ==
    HasMatrix =>
        LET curves == bpy_actions[sequence.action].fcurves
            w      == keyframe_write_matrix
        IN  /\ DOMAIN curves = {<<import_bones[b].name, c>> :
                                    b \in MappedSlots(import_bones), c \in Channels}
            /\ \A b \in MappedSlots(import_bones) : \A c \in Channels :
                LET points == curves[<<import_bones[b].name, c>>]
                IN  /\ DOMAIN points \subseteq 0..(Len(w) - 1)
                    /\ \A f \in 1..Len(w) : (f - 1 \in DOMAIN points) <=> w[f][b][c] = 1
            /\ \A b \in MappedSlots(import_bones) : \A f \in 1..Len(w) :
                (\A c \in Channels : f - 1 \notin DOMAIN curves[<<import_bones[b].name, c>>])
                    <=> MarkedChannels(w, f, b) = {}

\* C9's case: a bone with a frame wholly unmarked and a frame marked on
\* some channels only, which got keyframes on those channels alone.
C9_Witness ==
    /\ HasMatrix
    /\ \E b \in MappedSlots(import_bones) : \E f, g \in 1..Len(keyframe_write_matrix) :
        /\ MarkedChannels(keyframe_write_matrix, f, b) = {}
        /\ MarkedChannels(keyframe_write_matrix, g, b) = LocationChannels
        /\ g - 1 \in DOMAIN bpy_actions[sequence.action].fcurves[<<import_bones[b].name, 5>>]
        /\ g - 1 \notin DOMAIN bpy_actions[sequence.action].fcurves[<<import_bones[b].name, 1>>]

\* ------------------------------------------------------ index alignment
TargetNames == {armature[j].name : j \in DOMAIN armature}

\* C10: import_bones has one slot per PSA bone in file order, empty iff the
\* PSA bone's name is no target bone's name; a PSA bone index maps to one
\* target bone at most, the one of its name; the values of slot [frame][i]
\* of the data matrix go to the curves of the target bone named as PSA bone
\* i and to no other; the slot of an unmapped bone is never converted and
\* never written to a curve.
C10_IndicesStayAligned ==
    pc # "idle" =>
        /\ DOMAIN import_bones = DOMAIN PsaBoneNames
        /\ \A i \in DOMAIN PsaBoneNames :
            /\ import_bones[i].mapped <=> PsaBoneNames[i] \in TargetNames
            /\ import_bones[i].mapped => import_bones[i].name = PsaBoneNames[i]
            /\ i \in DOMAIN psa_to_armature_bone_indices <=> import_bones[i].mapped
            /\ i \in DOMAIN psa_to_armature_bone_indices =>
                    /\ psa_to_armature_bone_indices[i] \in DOMAIN armature
                    /\ armature[psa_to_armature_bone_indices[i]].name = PsaBoneNames[i]
        /\ HasMatrix =>
            LET data   == sequence_data_matrix
                curves == bpy_actions[sequence.action].fcurves
            IN  /\ \A f \in DOMAIN data : DOMAIN data[f] = DOMAIN PsaBoneNames
                /\ \A f \in DOMAIN data : \A i \in DOMAIN PsaBoneNames :
                      data[f][i] =
                        IF PsaBoneNames[i] \in TargetNames
                        THEN CalculateFcurveData(import_bones[i],
                                                 FileKey(sequence.name, f - 1, i))
                        ELSE FileKey(sequence.name, f - 1, i)
                /\ \A k \in DOMAIN curves :
                      /\ k[1] \in TargetNames
                      /\ \E i \in DOMAIN PsaBoneNames :
                            /\ PsaBoneNames[i] = k[1]
                            /\ \A g \in DOMAIN curves[k] :
                                  curves[k][g] = data[g + 1][i][k[2]]

\* C10's case: the pelvis of the PSA is unmapped and keeps its raw slot, the
\* spine sits at another index in the armature, and its curves are written.
C10_Witness ==
    /\ HasMatrix
    /\ ~import_bones[1].mapped
    /\ import_bones[2].mapped
    /\ psa_to_armature_bone_indices[2] = 1
    /\ sequence_data_matrix[1][1] = FileKey(sequence.name, 0, 1)
    /\ 0 \in DOMAIN bpy_actions[sequence.action].fcurves[<<"spine", 5>>]

\* ------------------------------------------------ rest-pose references
\* The target bone a mapped slot of import_bones stands for.
TargetBone(i) == armature[psa_to_armature_bone_indices[i]]

\* The target bone has no parent that is mapped: none at all, or one whose
\* name is no PSA bone's.
NoMappedParent(bone) == bone.parent = NoName \/ bone.parent \notin SharedNames

\* C11 as the spec states it: every mapped bone without a mapped parent has
\* the rest translation and rest rotation of its target bone as orig_loc and
\* orig_quat, whatever else the target bone carries.
C11_RootsTakeRestTransform ==
    pc # "idle" =>
        \A i \in MappedSlots(import_bones) :
            NoMappedParent(TargetBone(i)) =>
                /\ import_bones[i].orig_loc = TargetBone(i).translation
                /\ import_bones[i].orig_quat = QCanonical(TargetBone(i).rotation)

\* C11, amended: that holds for the target bones without the custom property
\* orig_quat, for which post_quat is the conjugate of orig_quat; a target
\* bone that carries orig_quat gives its custom properties orig_quat,
\* orig_loc and post_quat to the import bone, mapped parent or not.
C11_RootsTakeRestTransformUnlessAux ==
    pc # "idle" =>
        \A i \in MappedSlots(import_bones) :
            /\ (NoMappedParent(TargetBone(i)) /\ ~TargetBone(i).has_aux) =>
                /\ import_bones[i].orig_loc = TargetBone(i).translation
                /\ import_bones[i].orig_quat = QCanonical(TargetBone(i).rotation)
                /\ import_bones[i].post_quat = QConj(import_bones[i].orig_quat)
            /\ TargetBone(i).has_aux =>
                /\ import_bones[i].orig_loc = TargetBone(i).aux_orig_loc
                /\ import_bones[i].orig_quat = TargetBone(i).aux_orig_quat
                /\ import_bones[i].post_quat = TargetBone(i).aux_post_quat

\* C11's case: the spine's target parent is the root, which the PSA lacks;
\* the spine took its own rest transform and the import ran to its end.
C11_Witness ==
    /\ pc = "done"
    /\ \E i \in MappedSlots(import_bones) :
        /\ TargetBone(i).parent = "root"
        /\ ~TargetBone(i).has_aux
        /\ import_bones[i].orig_quat = <<1, -1, 1, 1>>
        /\ import_bones[i].orig_loc = <<0, 400, 3000>>

\* ------------------------------------------------------------ the stash
\* The step in which import_psa leaves its loop and returns.
Returns == pc = "loop" /\ pc' = "done"

\* C12: with should_stash, an import that runs to its end adds one track
\* for each action it produced, in their order, after the tracks that were
\* there: muted, named as the action, with one strip that starts at 0 and
\* refers to the action; without should_stash it adds none, and no other
\* step touches the tracks.  No step changes the action assigned to the
\* armature's animation data.
C12_StashAddsMutedTracks ==
    [][ /\ animation_data'.action = animation_data.action
        /\ ~Returns => nla_tracks' = nla_tracks /\ animation_data' = animation_data
        /\ (Returns /\ ~options.should_stash) =>
                nla_tracks' = nla_tracks /\ animation_data' = animation_data
        /\ (Returns /\ options.should_stash) =>
                /\ animation_data'.exists
                /\ Len(actions) = Len(options.sequence_names)
                /\ Len(nla_tracks') = Len(nla_tracks) + Len(actions)
                /\ SubSeq(nla_tracks', 1, Len(nla_tracks)) = nla_tracks
                /\ \A i \in DOMAIN actions :
                    LET track == nla_tracks'[Len(nla_tracks) + i]
                    IN  /\ track.mute
                        /\ track.name = actions[i]
                        /\ Len(track.strips) = 1
                        /\ track.strips[1].action = actions[i]
                        /\ track.strips[1].start = 0
                        /\ actions[i] \in DOMAIN bpy_actions
      ]_vars

\* C12's case: a first import of two sequences with should_stash onto an
\* armature whose animation data has the old Walk as its action: two muted
\* tracks, the action still assigned.
C12_Witness ==
    /\ pc = "done"
    /\ imports = 1
    /\ options.should_stash
    /\ Len(actions) = 2
    /\ Len(nla_tracks) = 2
    /\ nla_tracks[1].mute /\ nla_tracks[2].mute
    /\ nla_tracks[1].strips[1].action = actions[1]
    /\ nla_tracks[2].strips[1].action = actions[2]
    /\ animation_data = [exists |-> TRUE, action |-> <<"Walk", 0>>]

\* ------------------------------------------------------------ the names
\* C13: decoding a bone name or a sequence name never raises, whatever
\* bytes 0..255 the name holds: the listing of the file has the decoded
\* names of its sequence and its bone and no error, and import_psa decodes
\* the names without an exception.
C13_DecodingNeverRaises ==
    /\ decode_pc \in {"listed", "imported"} =>
            /\ psa_import.psa_error = NoName
            /\ Len(psa_import.sequence_list) = 1
            /\ Len(psa_import.bones) = 1
            /\ Len(psa_import.bones[1]) = Len(BoneNameBytes)
    /\ decode_pc = "imported" =>
            /\ decoded.raised = NoName
            /\ Len(decoded.bone_names) = 1
            /\ Len(decoded.sequence_name) = Len(SequenceNameBytes)

\* --------------------------------------------------------- parent links
\* The target bone's parent has a PSA bone of its name.
ParentInPsa(bone) == bone.parent # NoName /\ bone.parent \in Range(PsaBoneNames)

\* The local rotation of a key rotation k for the import bone ib.
LocalRotation(ib, k) ==
    QRotate(QRotate(ib.post_quat, ib.orig_quat), QConj(QRotate(ib.post_quat, k)))

\* C14: a mapped import bone has a parent link iff its target bone has a
\* parent whose name is a PSA bone's; the link is to the mapped import bone
\* of that name, and its lookup raises nothing (the only KeyError is that of
\* a sequence name); every other mapped bone has no link and its key
\* rotation is converted conjugated, a linked bone's as it is.
C14_ParentLinksAreMapped ==
    pc # "idle" =>
        /\ raised.type = "KeyError" => raised.key \in RequestableNames \ IndexedNames
        /\ \A i \in MappedSlots(import_bones) :
            /\ import_bones[i].parent # NoName <=> ParentInPsa(TargetBone(i))
            /\ import_bones[i].parent # NoName =>
                /\ import_bones[i].parent = TargetBone(i).parent
                /\ \E j \in MappedSlots(import_bones) :
                        import_bones[j].name = import_bones[i].parent
        /\ HasMatrix =>
            \A f \in DOMAIN sequence_data_matrix : \A i \in MappedSlots(import_bones) :
                LET k == QFromChannels(FileKey(sequence.name, f - 1, i))
                IN  SubSeq(sequence_data_matrix[f][i], 1, 4) =
                        QToChannels(LocalRotation(import_bones[i],
                            IF ParentInPsa(TargetBone(i)) THEN k ELSE QConj(k)))

\* C14's case: the armature is spine, root, pelvis: the spine is linked to
\* the pelvis, the pelvis, whose target parent the PSA lacks, is not, and its
\* rotation is that of the conjugated key and not that of the key.
C14_Witness ==
    /\ HasMatrix
    /\ \E i, j \in MappedSlots(import_bones) :
        /\ import_bones[i].parent = import_bones[j].name
        /\ TargetBone(j).parent = "root"
        /\ import_bones[j].parent = NoName
        /\ SubSeq(sequence_data_matrix[1][j], 1, 4) #
                QToChannels(LocalRotation(import_bones[j],
                    QFromChannels(FileKey(sequence.name, 0, j))))

\* ------------------------------------------------------------ overwrite
\* The step in which a turn of the loop runs to its end.
Turn == pc = "loop" /\ seq_pos' = seq_pos + 1

\* The action named prefix + name, under that very name.
ClipOf(name) == <<options.action_name_prefix \o name, 0>>

\* C15: with should_overwrite, the turn for a sequence whose action
\* prefix + name is there makes no new action and works on that one, leaving
\* every other action as it was; with should_write_keyframes the action then
\* holds the 7 curves of each mapped bone and no other, and every keyframe
\* on them is a frame of this sequence with the value of this import's data
\* matrix, so none it held before; in any turn of a batch and in a later
\* import of the same names.
C15_OverwriteReusesAction ==
    [][ (Turn /\ options.should_overwrite /\ ClipOf(NextName) \in DOMAIN bpy_actions) =>
            /\ DOMAIN bpy_actions' = DOMAIN bpy_actions
            /\ sequence'.action = ClipOf(NextName)
            /\ actions' = Append(actions, ClipOf(NextName))
            /\ \A a \in DOMAIN bpy_actions \ {ClipOf(NextName)} :
                    bpy_actions'[a] = bpy_actions[a]
            /\ options.should_write_keyframes =>
                LET curves == bpy_actions'[ClipOf(NextName)].fcurves
                    count  == SequenceIndex[NextName].frame_count
                IN  /\ DOMAIN curves = SharedNames \X Channels
                    /\ \A k \in DOMAIN curves :
                        /\ 0 \in DOMAIN curves[k]
                        /\ DOMAIN curves[k] \subseteq 0..(count - 1)
                        /\ \A g \in DOMAIN curves[k] :
                              curves[k][g] =
                                sequence_data_matrix'[g + 1][SlotNamed(k[1])][k[2]]
      ]_vars

\* C15's case: Walk and Run imported twice with should_overwrite and
\* keyframes: the second import found both actions and made no other, and
\* the old Walk has lost its tail curve and its keyframe at frame 7.
C15_Witness ==
    /\ pc = "done"
    /\ imports = 2
    /\ options.should_overwrite /\ options.should_write_keyframes
    /\ options.sequence_names = <<"Walk", "Run">>
    /\ options.action_name_prefix = ""
    /\ DOMAIN bpy_actions = {<<"Walk", 0>>, <<"Run", 0>>}
    /\ actions = <<<<"Walk", 0>>, <<"Run", 0>>>>
    /\ <<"tail", 5>> \notin DOMAIN bpy_actions[<<"Walk", 0>>].fcurves
    /\ 7 \notin DOMAIN bpy_actions[<<"Walk", 0>>].fcurves[<<"pelvis", 1>>]

====
